---- MODULE Spec2Model ----
(***************************************************************************)
(* The in-memory B-tree of catdb (src/src/trees/mod.rs): BTree::new,       *)
(* BTree::find, BTree::insert, BTree::size and the split / insert helpers. *)
(* A node is a record; an internal node owns the sequence of its children, *)
(* as the Rust Vec<Box<Node<T>>> does.  Sequences are 1-based here, the    *)
(* Rust Vecs 0-based: Rust index i is position i + 1.                      *)
(***************************************************************************)
EXTENDS Integers, Sequences, FiniteSets, TLC

\* ---------------------------------------------------------------- constants
BTREE_MIN_KEYS == 15

BTREE_MAX_KEYS == 31

BTREE_MEDIAN_INDEX == BTREE_MIN_KEYS

\* ------------------------------------------------------------------- bounds
\* The caller runs three insert loops one after the other, in the manner of
\* tests::test_insert_out_of_order_i64: an ascending run of even keys
\* 2, 4, 6, ..., interrupted once (optionally) by a run of odd keys that all
\* lie between keys stored earlier, and then continued.
MaxUp == 768

MaxGap == 17

\* the i-th key of the ascending run (i = 0, 1, ...)
UpKey(i) == 2 * (i + 1)

\* the j-th key of the in-between run: the odd keys that follow the first
\* median an ascending run promotes
GapKey(j) == UpKey(BTREE_MEDIAN_INDEX) + 1 + 2 * j

\* the in-between run is inserted when the ascending run has made the tree
\* three levels high: BTREE_MAX_KEYS keys in the root, BTREE_MIN_KEYS + 1
\* inserts for each of them but the first, which takes BTREE_MAX_KEYS
GapStart == BTREE_MAX_KEYS + (BTREE_MAX_KEYS - 1) * (BTREE_MIN_KEYS + 1)

Keys == 0 .. (UpKey(MaxUp) + 1)

VARIABLES
    root,       \* BTree.root: the tree of nodes
    num_keys,   \* BTree.num_keys
    op,         \* the last public call: "new", "insert", "find", "size"
    arg,        \* its key argument (NoKey when it has none)
    ret,        \* its return value
    splits,     \* the calls of split_node the last call made, in order
    passed,     \* history: the keys passed to insert so far
    inserted,   \* history: the keys for which insert returned true
    succ,       \* history: the number of insert calls that returned true
    up,         \* caller: how many keys of the ascending run were inserted
    gap         \* caller: how many keys of the in-between run were inserted

vars == <<root, num_keys, op, arg, ret, splits, passed, inserted, succ, up, gap>>

NoKey == 0 - 1

\* ------------------------------------------------------------------- nodes
LeafNode(keys, n) == [kind |-> "Leaf", keys |-> keys, num_keys |-> n]

InternalNode(keys, children, n) ==
    [kind |-> "Internal", keys |-> keys, children |-> children, num_keys |-> n]

\* The loop `for i in 0..node.num_keys { match key.cmp(&node.keys[i]) ... }`
\* shared by find and the two insert functions: it runs past the keys for
\* which key.cmp is Greater (key > keys[i]) and stops at the first index where
\* it is Less or Equal.  The result is that index (0-based), or num_keys when
\* the loop runs out.  At a stop, Equal is key = keys[i], Less anything else.
ScanStop(keys, n, key) ==
    LET stops == {i \in 0 .. n - 1 : ~(key > keys[i + 1])}
    IN  IF stops = {} THEN n
        ELSE CHOOSE i \in stops : \A j \in stops : i <= j

\* Vec::insert(index, element), index 0-based
VecInsert(v, index, e) ==
    SubSeq(v, 1, index) \o <<e>> \o SubSeq(v, index + 1, Len(v))

\* Vec::push
VecPush(v, e) == Append(v, e)

\* Vec::drain(from..): the elements kept and the elements drained
DrainKept(v, from) == SubSeq(v, 1, from)

DrainTaken(v, from) == SubSeq(v, from + 1, Len(v))

\* Vec::remove(index), index 0-based: the vector left behind
VecRemove(v, index) == SubSeq(v, 1, index) \o SubSeq(v, index + 2, Len(v))

\* -------------------------------------------------------------------- find
\* find_node that takes the place where a leaf scan stops for a hit
RECURSIVE find_node_StopIsHit(_, _)
find_node_StopIsHit(node, key) ==
    LET i == ScanStop(node.keys, node.num_keys, key)
        hit == i < node.num_keys /\ key = node.keys[i + 1]
    IN  IF node.kind = "Leaf"
        THEN i < node.num_keys
        ELSE IF hit THEN TRUE
             ELSE find_node_StopIsHit(node.children[i + 1], key)

\* find_node that answers true where the leaf scan runs out
RECURSIVE find_node_LeafEndTrue(_, _)
find_node_LeafEndTrue(node, key) ==
    LET i == ScanStop(node.keys, node.num_keys, key)
        hit == i < node.num_keys /\ key = node.keys[i + 1]
    IN  IF node.kind = "Leaf"
        THEN hit \/ i = node.num_keys
        ELSE IF hit THEN TRUE
             ELSE find_node_LeafEndTrue(node.children[i + 1], key)

RECURSIVE find_node(_, _)
find_node(node, key) ==
    LET i == ScanStop(node.keys, node.num_keys, key)
        hit == i < node.num_keys /\ key = node.keys[i + 1]
    IN  IF node.kind = "Leaf"
        THEN hit
        ELSE IF hit THEN TRUE
             ELSE find_node(node.children[i + 1], key)

find(tree_root, key) == find_node(tree_root, key)

\* a walk that looks into every child left of the one it descends into
RECURSIVE find_walk_ScanChildren(_, _)
find_walk_ScanChildren(node, key) ==
    LET i == ScanStop(node.keys, node.num_keys, key)
        hit == i < node.num_keys /\ key = node.keys[i + 1]
    IN  IF node.kind = "Leaf" \/ hit THEN <<node>>
        ELSE <<node>> \o SubSeq(node.children, 1, i)
                      \o find_walk_ScanChildren(node.children[i + 1], key)

\* The nodes the 'main_loop of find takes as current_node, in order
RECURSIVE find_walk(_, _)
find_walk(node, key) ==
    LET i == ScanStop(node.keys, node.num_keys, key)
        hit == i < node.num_keys /\ key = node.keys[i + 1]
    IN  IF node.kind = "Leaf" \/ hit THEN <<node>>
        ELSE <<node>> \o find_walk(node.children[i + 1], key)

\* ------------------------------------------------------------------- split
\* split_leaf_node that hands up a copy of the right node's first key while
\* still removing the key at the median index
split_leaf_node_CopyUp(node) ==
    LET right_keys == DrainTaken(node.keys, BTREE_MEDIAN_INDEX + 1)
        kept       == DrainKept(node.keys, BTREE_MEDIAN_INDEX + 1)
        median_key == right_keys[1]
        left_keys  == VecRemove(kept, BTREE_MEDIAN_INDEX)
    IN  [left       |-> LeafNode(left_keys, Len(left_keys)),
         median_key |-> median_key,
         right      |-> LeafNode(right_keys, Len(right_keys))]

\* split_leaf_node draining one position too late
split_leaf_node_DrainLate(node) ==
    LET right_keys == DrainTaken(node.keys, BTREE_MEDIAN_INDEX + 2)
        kept       == DrainKept(node.keys, BTREE_MEDIAN_INDEX + 2)
        median_key == kept[BTREE_MEDIAN_INDEX + 1]
        left_keys  == VecRemove(kept, BTREE_MEDIAN_INDEX)
    IN  [left       |-> LeafNode(left_keys, Len(left_keys)),
         median_key |-> median_key,
         right      |-> LeafNode(right_keys, Len(right_keys))]

\* split_leaf_node that keeps a copy of the median in the right node
split_leaf_node_KeepMedian(node) ==
    LET right_keys == DrainTaken(node.keys, BTREE_MEDIAN_INDEX)
        kept       == DrainKept(node.keys, BTREE_MEDIAN_INDEX)
        median_key == right_keys[1]
    IN  [left       |-> LeafNode(kept, Len(kept)),
         median_key |-> median_key,
         right      |-> LeafNode(right_keys, Len(right_keys))]

\* split_leaf_node that leaves the count of the original node as it was
split_leaf_node_StaleCount(node) ==
    LET right_keys == DrainTaken(node.keys, BTREE_MEDIAN_INDEX + 1)
        kept       == DrainKept(node.keys, BTREE_MEDIAN_INDEX + 1)
        median_key == kept[BTREE_MEDIAN_INDEX + 1]
        left_keys  == VecRemove(kept, BTREE_MEDIAN_INDEX)
    IN  [left       |-> LeafNode(left_keys, node.num_keys),
         median_key |-> median_key,
         right      |-> LeafNode(right_keys, Len(right_keys))]

split_leaf_node(node) ==
    LET right_keys == DrainTaken(node.keys, BTREE_MEDIAN_INDEX + 1)
        kept       == DrainKept(node.keys, BTREE_MEDIAN_INDEX + 1)
        median_key == kept[BTREE_MEDIAN_INDEX + 1]
        left_keys  == VecRemove(kept, BTREE_MEDIAN_INDEX)
    IN  [left       |-> LeafNode(left_keys, Len(left_keys)),
         median_key |-> median_key,
         right      |-> LeafNode(right_keys, Len(right_keys))]

\* split_internal_node draining the children one position too early
split_internal_node_ChildrenEarly(node) ==
    LET right_keys     == DrainTaken(node.keys, BTREE_MEDIAN_INDEX + 1)
        kept           == DrainKept(node.keys, BTREE_MEDIAN_INDEX + 1)
        right_children == DrainTaken(node.children, BTREE_MEDIAN_INDEX)
        left_children  == DrainKept(node.children, BTREE_MEDIAN_INDEX)
        median_key     == kept[BTREE_MEDIAN_INDEX + 1]
        left_keys      == VecRemove(kept, BTREE_MEDIAN_INDEX)
    IN  [left       |-> InternalNode(left_keys, left_children, Len(left_keys)),
         median_key |-> median_key,
         right      |-> InternalNode(right_keys, right_children, Len(right_keys))]

\* split_internal_node that hands up the key before the median index
split_internal_node_MedianOff(node) ==
    LET right_keys     == DrainTaken(node.keys, BTREE_MEDIAN_INDEX + 1)
        kept           == DrainKept(node.keys, BTREE_MEDIAN_INDEX + 1)
        right_children == DrainTaken(node.children, BTREE_MEDIAN_INDEX + 1)
        left_children  == DrainKept(node.children, BTREE_MEDIAN_INDEX + 1)
        median_key     == kept[BTREE_MEDIAN_INDEX]
        left_keys      == VecRemove(kept, BTREE_MEDIAN_INDEX)
    IN  [left       |-> InternalNode(left_keys, left_children, Len(left_keys)),
         median_key |-> median_key,
         right      |-> InternalNode(right_keys, right_children, Len(right_keys))]

split_internal_node(node) ==
    LET right_keys     == DrainTaken(node.keys, BTREE_MEDIAN_INDEX + 1)
        kept           == DrainKept(node.keys, BTREE_MEDIAN_INDEX + 1)
        right_children == DrainTaken(node.children, BTREE_MEDIAN_INDEX + 1)
        left_children  == DrainKept(node.children, BTREE_MEDIAN_INDEX + 1)
        median_key     == kept[BTREE_MEDIAN_INDEX + 1]
        left_keys      == VecRemove(kept, BTREE_MEDIAN_INDEX)
    IN  [left       |-> InternalNode(left_keys, left_children, Len(left_keys)),
         median_key |-> median_key,
         right      |-> InternalNode(right_keys, right_children, Len(right_keys))]

\* split_node: `left` is the node as the call leaves it in place
split_node(node) ==
    IF node.kind = "Leaf" THEN split_leaf_node(node)
    ELSE split_internal_node(node)

\* One entry of the split log: the node handed to split_node and the result
SplitEntry(node, res) ==
    [node |-> node, left |-> res.left, median_key |-> res.median_key,
     right |-> res.right]

\* ------------------------------------------------------------------ insert
\* The insert functions return the node as the call leaves it, the
\* InsertState (success, must_split) and the log of the splits performed.
\* insert_at_leaf_node that always appends the new key
insert_at_leaf_node_Push(leaf, key) ==
    LET i   == ScanStop(leaf.keys, leaf.num_keys, key)
        dup == i < leaf.num_keys /\ key = leaf.keys[i + 1]
    IN  IF dup
        THEN [node |-> leaf, success |-> FALSE, must_split |-> FALSE,
              splits |-> <<>>]
        ELSE [node |-> LeafNode(VecPush(leaf.keys, key), leaf.num_keys + 1),
              success |-> TRUE,
              must_split |-> leaf.num_keys + 1 >= BTREE_MAX_KEYS,
              splits |-> <<>>]

\* insert_at_leaf_node asking for a split only above BTREE_MAX_KEYS
insert_at_leaf_node_Late(leaf, key) ==
    LET i   == ScanStop(leaf.keys, leaf.num_keys, key)
        dup == i < leaf.num_keys /\ key = leaf.keys[i + 1]
    IN  IF dup
        THEN [node |-> leaf, success |-> FALSE, must_split |-> FALSE,
              splits |-> <<>>]
        ELSE [node |-> LeafNode(VecInsert(leaf.keys, i, key), leaf.num_keys + 1),
              success |-> TRUE,
              must_split |-> leaf.num_keys + 1 > BTREE_MAX_KEYS,
              splits |-> <<>>]

\* insert_at_leaf_node asking for a split one key before BTREE_MAX_KEYS
insert_at_leaf_node_Early(leaf, key) ==
    LET i   == ScanStop(leaf.keys, leaf.num_keys, key)
        dup == i < leaf.num_keys /\ key = leaf.keys[i + 1]
    IN  IF dup
        THEN [node |-> leaf, success |-> FALSE, must_split |-> FALSE,
              splits |-> <<>>]
        ELSE [node |-> LeafNode(VecInsert(leaf.keys, i, key), leaf.num_keys + 1),
              success |-> TRUE,
              must_split |-> leaf.num_keys + 1 >= BTREE_MAX_KEYS - 1,
              splits |-> <<>>]

insert_at_leaf_node(leaf, key) ==
    LET i   == ScanStop(leaf.keys, leaf.num_keys, key)
        dup == i < leaf.num_keys /\ key = leaf.keys[i + 1]
    IN  IF dup
        THEN [node |-> leaf, success |-> FALSE, must_split |-> FALSE,
              splits |-> <<>>]
        ELSE [node |-> LeafNode(VecInsert(leaf.keys, i, key), leaf.num_keys + 1),
              success |-> TRUE,
              must_split |-> leaf.num_keys + 1 >= BTREE_MAX_KEYS,
              splits |-> <<>>]

RECURSIVE insert_at_node(_, _)

\* insert_at_internal_node with the Equal arm of the scan missing
insert_at_internal_node_NoEqual(internal, key) ==
    LET i   == ScanStop(internal.keys, internal.num_keys, key)
        sub == insert_at_node(internal.children[i + 1], key)
    IN  IF sub.must_split
        THEN
          LET res   == split_node(sub.node)
              kids  == [internal.children EXCEPT ![i + 1] = res.left]
              nkeys == IF i < internal.num_keys
                       THEN VecInsert(internal.keys, i, res.median_key)
                       ELSE VecPush(internal.keys, res.median_key)
              nkids == IF i < internal.num_keys
                       THEN VecInsert(kids, i + 1, res.right)
                       ELSE VecPush(kids, res.right)
          IN  [node |-> InternalNode(nkeys, nkids, internal.num_keys + 1),
               success |-> sub.success,
               must_split |-> internal.num_keys + 1 >= BTREE_MAX_KEYS,
               splits |-> Append(sub.splits, SplitEntry(sub.node, res))]
        ELSE
          [node |-> InternalNode(internal.keys,
                        [internal.children EXCEPT ![i + 1] = sub.node],
                        internal.num_keys),
           success |-> sub.success,
           must_split |-> FALSE,
           splits |-> sub.splits]

\* insert_at_internal_node that turns a split child into a one-key internal
\* node in place instead of absorbing the median and the new sibling
insert_at_internal_node_GrowChild(internal, key) ==
    LET i   == ScanStop(internal.keys, internal.num_keys, key)
        dup == i < internal.num_keys /\ key = internal.keys[i + 1]
    IN  IF dup
        THEN [node |-> internal, success |-> FALSE, must_split |-> FALSE,
              splits |-> <<>>]
        ELSE
          LET sub == insert_at_node(internal.children[i + 1], key)
              res == split_node(sub.node)
              grown == InternalNode(<<res.median_key>>, <<res.left, res.right>>, 1)
          IN  [node |-> InternalNode(internal.keys,
                            [internal.children EXCEPT ![i + 1] =
                                 IF sub.must_split THEN grown ELSE sub.node],
                            internal.num_keys),
               success |-> sub.success,
               must_split |-> FALSE,
               splits |-> IF sub.must_split
                          THEN Append(sub.splits, SplitEntry(sub.node, res))
                          ELSE sub.splits]

\* insert_at_internal_node asking for its own split one key before
\* BTREE_MAX_KEYS
insert_at_internal_node_Early(internal, key) ==
    LET i   == ScanStop(internal.keys, internal.num_keys, key)
        dup == i < internal.num_keys /\ key = internal.keys[i + 1]
    IN  IF dup
        THEN [node |-> internal, success |-> FALSE, must_split |-> FALSE,
              splits |-> <<>>]
        ELSE
          LET sub == insert_at_node(internal.children[i + 1], key)
          IN  IF sub.must_split
              THEN
                LET res   == split_node(sub.node)
                    kids  == [internal.children EXCEPT ![i + 1] = res.left]
                    nkeys == IF i < internal.num_keys
                             THEN VecInsert(internal.keys, i, res.median_key)
                             ELSE VecPush(internal.keys, res.median_key)
                    nkids == IF i < internal.num_keys
                             THEN VecInsert(kids, i + 1, res.right)
                             ELSE VecPush(kids, res.right)
                IN  [node |-> InternalNode(nkeys, nkids, internal.num_keys + 1),
                     success |-> sub.success,
                     must_split |-> internal.num_keys + 1 >= BTREE_MAX_KEYS - 1,
                     splits |-> Append(sub.splits, SplitEntry(sub.node, res))]
              ELSE
                [node |-> InternalNode(internal.keys,
                              [internal.children EXCEPT ![i + 1] = sub.node],
                              internal.num_keys),
                 success |-> sub.success,
                 must_split |-> FALSE,
                 splits |-> sub.splits]

insert_at_internal_node(internal, key) ==
    LET i   == ScanStop(internal.keys, internal.num_keys, key)
        dup == i < internal.num_keys /\ key = internal.keys[i + 1]
    IN  IF dup
        THEN [node |-> internal, success |-> FALSE, must_split |-> FALSE,
              splits |-> <<>>]
        ELSE
          LET sub == insert_at_node(internal.children[i + 1], key)
          IN  IF sub.must_split
              THEN
                LET res   == split_node(sub.node)
                    kids  == [internal.children EXCEPT ![i + 1] = res.left]
                    \* the Less arm inserts at i / i + 1, the arm after the
                    \* loop pushes at the end
                    nkeys == IF i < internal.num_keys
                             THEN VecInsert(internal.keys, i, res.median_key)
                             ELSE VecPush(internal.keys, res.median_key)
                    nkids == IF i < internal.num_keys
                             THEN VecInsert(kids, i + 1, res.right)
                             ELSE VecPush(kids, res.right)
                IN  [node |-> InternalNode(nkeys, nkids, internal.num_keys + 1),
                     success |-> sub.success,
                     must_split |-> internal.num_keys + 1 >= BTREE_MAX_KEYS,
                     splits |-> Append(sub.splits, SplitEntry(sub.node, res))]
              ELSE
                [node |-> InternalNode(internal.keys,
                              [internal.children EXCEPT ![i + 1] = sub.node],
                              internal.num_keys),
                 success |-> sub.success,
                 must_split |-> FALSE,
                 splits |-> sub.splits]

insert_at_node(node, key) ==
    IF node.kind = "Internal" THEN insert_at_internal_node(node, key)
    ELSE insert_at_leaf_node(node, key)

\* BTree::insert that counts the call whether or not it succeeded
insert_AlwaysCount(tree_root, tree_num_keys, key) ==
    LET root_insert == insert_at_node(tree_root, key)
        root_split  == split_node(root_insert.node)
        new_root    == InternalNode(<<root_split.median_key>>,
                                    <<root_split.left, root_split.right>>, 1)
    IN  [root     |-> IF root_insert.must_split THEN new_root
                      ELSE root_insert.node,
         num_keys |-> tree_num_keys + 1,
         ret      |-> root_insert.success,
         splits   |-> IF root_insert.must_split
                      THEN Append(root_insert.splits,
                                  SplitEntry(root_insert.node, root_split))
                      ELSE root_insert.splits]

\* BTree::insert that skips the count when it splits the root
insert_NoCountOnRootSplit(tree_root, tree_num_keys, key) ==
    LET root_insert == insert_at_node(tree_root, key)
        root_split  == split_node(root_insert.node)
        new_root    == InternalNode(<<root_split.median_key>>,
                                    <<root_split.left, root_split.right>>, 1)
    IN  [root     |-> IF root_insert.must_split THEN new_root
                      ELSE root_insert.node,
         num_keys |-> IF root_insert.success /\ ~root_insert.must_split
                      THEN tree_num_keys + 1
                      ELSE tree_num_keys,
         ret      |-> root_insert.success,
         splits   |-> IF root_insert.must_split
                      THEN Append(root_insert.splits,
                                  SplitEntry(root_insert.node, root_split))
                      ELSE root_insert.splits]

\* BTree::insert that pushes the new sibling before the old root
insert_SwappedChildren(tree_root, tree_num_keys, key) ==
    LET root_insert == insert_at_node(tree_root, key)
        root_split  == split_node(root_insert.node)
        new_root    == InternalNode(<<root_split.median_key>>,
                                    <<root_split.right, root_split.left>>, 1)
    IN  [root     |-> IF root_insert.must_split THEN new_root
                      ELSE root_insert.node,
         num_keys |-> IF root_insert.success THEN tree_num_keys + 1
                      ELSE tree_num_keys,
         ret      |-> root_insert.success,
         splits   |-> IF root_insert.must_split
                      THEN Append(root_insert.splits,
                                  SplitEntry(root_insert.node, root_split))
                      ELSE root_insert.splits]

\* BTree::insert: the new tree (root, num_keys), the return value and the
\* split log of the call
insert(tree_root, tree_num_keys, key) ==
    LET root_insert == insert_at_node(tree_root, key)
        root_split  == split_node(root_insert.node)
        new_root    == InternalNode(<<root_split.median_key>>,
                                    <<root_split.left, root_split.right>>, 1)
    IN  [root     |-> IF root_insert.must_split THEN new_root
                      ELSE root_insert.node,
         num_keys |-> IF root_insert.success THEN tree_num_keys + 1
                      ELSE tree_num_keys,
         ret      |-> root_insert.success,
         splits   |-> IF root_insert.must_split
                      THEN Append(root_insert.splits,
                                  SplitEntry(root_insert.node, root_split))
                      ELSE root_insert.splits]

\* BTree::size
size(tree_num_keys) == tree_num_keys

\* ------------------------------------------------------------ tree queries
RECURSIVE InOrder(_)
InOrder(node) ==
    IF node.kind = "Leaf" THEN node.keys
    ELSE LET F[i \in 0 .. Len(node.keys)] ==
                 IF i = 0 THEN InOrder(node.children[1])
                 ELSE F[i - 1] \o <<node.keys[i]>> \o
                      (IF i + 1 <= Len(node.children)
                       THEN InOrder(node.children[i + 1]) ELSE <<>>)
         IN  F[Len(node.keys)]

RECURSIVE Nodes(_)
Nodes(node) ==
    IF node.kind = "Leaf" THEN {node}
    ELSE {node} \cup UNION {Nodes(node.children[i]) : i \in 1 .. Len(node.children)}

RECURSIVE Height(_)
Height(node) ==
    IF node.kind = "Leaf" THEN 1
    ELSE 1 + Height(node.children[1])

\* ------------------------------------------------------------------ caller
RECURSIVE MinKey(_)
MinKey(node) ==
    IF node.kind = "Leaf" THEN node.keys[1] ELSE MinKey(node.children[1])

RECURSIVE MaxKey(_)
MaxKey(node) ==
    IF node.kind = "Leaf" THEN node.keys[Len(node.keys)]
    ELSE MaxKey(node.children[Len(node.children)])

\* The keys the caller looks up: the first key of the root (a promoted
\* median once the root is internal), the key just below it (below or between
\* the stored keys), the largest stored key and the key just above it.
Probes ==
    IF root.num_keys = 0 THEN {1, 2}
    ELSE {root.keys[1], root.keys[1] - 1, MaxKey(root), MaxKey(root) + 1}

\* The keys the caller inserts a second time, as tests::test_insert_u32 does:
\* the first key of the root, the first key of the root's first child and the
\* largest stored key.
Repeats ==
    IF root.num_keys = 0 THEN {}
    ELSE {root.keys[1], MaxKey(root)}
         \cup (IF root.kind = "Internal" THEN {root.children[1].keys[1]} ELSE {})

\* ------------------------------------------------------------------ actions
\* BTree::new
Init ==
    /\ root = LeafNode(<<>>, 0)
    /\ num_keys = 0
    /\ op = "new"
    /\ arg = NoKey
    /\ ret = FALSE
    /\ splits = <<>>
    /\ passed = {}
    /\ inserted = {}
    /\ succ = 0
    /\ up = 0
    /\ gap = 0

\* one call tree.insert(key), with the history it leaves
DoInsert(key) ==
    LET r == insert(root, num_keys, key)
    IN  /\ root' = r.root
        /\ num_keys' = r.num_keys
        /\ op' = "insert"
        /\ arg' = key
        /\ ret' = r.ret
        /\ splits' = r.splits
        /\ passed' = passed \cup {key}
        /\ inserted' = IF r.ret THEN inserted \cup {key} ELSE inserted
        /\ succ' = IF r.ret THEN succ + 1 ELSE succ

\* the ascending run; it resumes after the in-between run only when that run
\* is complete (or was left out)
InsertUp ==
    /\ up < MaxUp
    /\ up = GapStart => gap \in {0, MaxGap}
    /\ DoInsert(UpKey(up))
    /\ up' = up + 1
    /\ gap' = gap

\* the in-between run
InsertGap ==
    /\ up = GapStart
    /\ gap < MaxGap
    /\ DoInsert(GapKey(gap))
    /\ gap' = gap + 1
    /\ up' = up

\* a second insert of a key inserted before
InsertAgain ==
    \E key \in Repeats :
        /\ DoInsert(key)
        /\ UNCHANGED <<up, gap>>

\* one call tree.find(&key)
Find ==
    \E key \in Probes :
        /\ op' = "find"
        /\ arg' = key
        /\ ret' = find(root, key)
        /\ splits' = <<>>
        /\ UNCHANGED <<root, num_keys, passed, inserted, succ, up, gap>>

\* one call tree.size()
Size ==
    /\ op' = "size"
    /\ arg' = NoKey
    /\ ret' = size(num_keys)
    /\ splits' = <<>>
    /\ UNCHANGED <<root, num_keys, passed, inserted, succ, up, gap>>

Next == InsertUp \/ InsertGap \/ InsertAgain \/ Find \/ Size

Spec == Init /\ [][Next]_vars

\* ------------------------------------------------------------ tree shape
RECURSIVE LeafDepths(_, _)
LeafDepths(node, d) ==
    IF node.kind = "Leaf" THEN {d}
    ELSE UNION {LeafDepths(node.children[i], d + 1) : i \in 1 .. Len(node.children)}

\* the heights of the subtree below node, along every path to a leaf
Heights(node) == LeafDepths(node, 1)

StrictlyAscending(s) == \A i \in 1 .. Len(s) - 1 : s[i] < s[i + 1]

SeqToSet(s) == {s[i] : i \in 1 .. Len(s)}

SubtreeKeys(node) == SeqToSet(InOrder(node))

InternalNodes == {n \in Nodes(root) : n.kind = "Internal"}

\* the number of nodes of the subtree below node
RECURSIVE NodeCount(_)
NodeCount(node) ==
    IF node.kind = "Leaf" THEN 1
    ELSE LET F[i \in 0 .. Len(node.children)] ==
                 IF i = 0 THEN 1 ELSE F[i - 1] + NodeCount(node.children[i])
         IN  F[Len(node.children)]

\* the number of key slots of the subtree below node
RECURSIVE KeySlots(_)
KeySlots(node) ==
    IF node.kind = "Leaf" THEN Len(node.keys)
    ELSE LET F[i \in 0 .. Len(node.children)] ==
                 IF i = 0 THEN Len(node.keys)
                 ELSE F[i - 1] + KeySlots(node.children[i])
         IN  F[Len(node.children)]

\* The subtrees that hang off the path insert_at_node takes for key: at each
\* internal node every child but the one the scan descends into (every child
\* when the scan stops at an equal key and the call returns).
RECURSIVE OffPath(_, _)
OffPath(node, key) ==
    IF node.kind = "Leaf" THEN {}
    ELSE LET i   == ScanStop(node.keys, node.num_keys, key)
             dup == i < node.num_keys /\ key = node.keys[i + 1]
         IN  IF dup THEN SeqToSet(node.children)
             ELSE {node.children[j] : j \in (1 .. Len(node.children)) \ {i + 1}}
                  \cup OffPath(node.children[i + 1], key)

\* ------------------------------------------------------------------ claims

\* C1: once insert(k) has returned true, find(k) returns true in the state
\* right after that call and in every later state, whatever is inserted
\* afterwards and whatever splits happen.
C1_InsertedStaysFound == \A k \in inserted : find(root, k)

\* a key inserted long ago is looked up after leaf, internal and root splits
C1_Witness ==
    /\ Height(root) = 3
    /\ op = "find" /\ ret = TRUE
    /\ arg \in inserted /\ arg = root.keys[1]

\* C2: find(k) is true exactly for the keys passed to insert before; it is
\* false for every key never inserted, below, between or above the stored
\* keys.
C2_FindIffPassed == \A k \in Keys : find(root, k) <=> k \in passed

\* a key lying between stored keys is looked up and not found
C2_Witness ==
    /\ op = "find" /\ ret = FALSE
    /\ root.kind = "Internal"
    /\ arg \notin passed
    /\ MinKey(root) < arg /\ arg < MaxKey(root)

\* C3: insert(k) returns true iff find(k) was false before the call, and
\* false iff k was already stored, in a leaf or in an internal node.
C3_InsertTrueIffAbsent ==
    [][op' = "insert" => (ret' <=> ~find(root, arg'))]_vars

\* a key that was promoted into the root is inserted again
C3_Witness ==
    /\ op = "insert" /\ ret = FALSE
    /\ root.kind = "Internal"
    /\ \E i \in 1 .. Len(root.keys) : root.keys[i] = arg

\* C4: an insert that returns false changes nothing: size(), the root and
\* every node below it, and the height stay as they were, and no split is
\* performed.
C4_FailedInsertIsNoOp ==
    [][(op' = "insert" /\ ret' = FALSE) =>
           /\ size(num_keys') = size(num_keys)
           /\ root' = root
           /\ Height(root') = Height(root)
           /\ splits' = <<>>]_vars

\* a key stored in a leaf of a tree of height three is inserted again
C4_Witness ==
    /\ op = "insert" /\ ret = FALSE
    /\ Height(root) = 3
    /\ arg = MaxKey(root)

\* C5: size() is the number of insert calls that returned true, which is the
\* number of distinct keys inserted; every insert that returns true (succ
\* goes up by one) adds exactly one to size(), split cascade or not.
C5_SizeCountsSuccesses ==
    /\ size(num_keys) = succ
    /\ succ = Cardinality(passed)
    /\ succ = Cardinality(inserted)

\* an insert that split a leaf and, above it, the root
C5_Witness ==
    /\ op = "insert" /\ ret = TRUE
    /\ Len(splits) = 2
    /\ Height(root) = 3 /\ root.num_keys = 1
    /\ size(num_keys) = succ

\* C6: the in-order traversal is strictly ascending; the keys of every node
\* are strictly ascending and, in an internal node, the keys below
\* children[i] are less than keys[i] and those below children[i+1] greater.
C6_Ordered ==
    /\ StrictlyAscending(InOrder(root))
    /\ \A n \in Nodes(root) :
         /\ StrictlyAscending(n.keys)
         /\ n.kind = "Internal" =>
              \A i \in 1 .. Len(n.keys) :
                  /\ \A k \in SubtreeKeys(n.children[i]) : k < n.keys[i]
                  /\ \A k \in SubtreeKeys(n.children[i + 1]) : k > n.keys[i]

\* keys were inserted between stored keys and the tree has three levels
C6_Witness ==
    /\ gap = MaxGap
    /\ Height(root) = 3
    /\ Len(InOrder(root)) > MaxGap

\* C7: after a public operation every node holds at most BTREE_MAX_KEYS - 1
\* keys; a node that reached BTREE_MAX_KEYS was split before insert returned.
C7_NodesBelowMax ==
    \A n \in Nodes(root) :
        /\ Len(n.keys) <= BTREE_MAX_KEYS - 1
        /\ n.num_keys <= BTREE_MAX_KEYS - 1

\* an insert filled a node to BTREE_MAX_KEYS and split it
C7_Witness ==
    /\ op = "insert"
    /\ splits # <<>>
    /\ Len(splits[1].node.keys) = BTREE_MAX_KEYS
    /\ \E n \in Nodes(root) : Len(n.keys) = BTREE_MAX_KEYS - 1

\* C8: every internal node has exactly one more child than keys, the new
\* root of a root split, both halves of a split internal node and a parent
\* that absorbed a median included.
C8_ChildrenIsKeysPlusOne ==
    /\ \A n \in InternalNodes : Len(n.children) = Len(n.keys) + 1
    /\ \A i \in 1 .. Len(splits) :
         splits[i].node.kind = "Internal" =>
            /\ Len(splits[i].left.children) = Len(splits[i].left.keys) + 1
            /\ Len(splits[i].right.children) = Len(splits[i].right.keys) + 1

\* an internal node below the root was split and the root absorbed its
\* median and its new sibling
C8_Witness ==
    /\ Len(splits) = 2
    /\ splits[2].node.kind = "Internal"
    /\ Height(root) = 3
    /\ Len(root.keys) = 2 /\ Len(root.children) = 3

\* C9: all leaves are at the same depth, the children of an internal node
\* have subtrees of one and the same height, and a split makes a sibling of
\* the variant and height of the node it was split from.
C9_Balanced ==
    /\ Cardinality(LeafDepths(root, 0)) = 1
    /\ \A n \in InternalNodes :
         Cardinality(UNION {Heights(n.children[i]) : i \in 1 .. Len(n.children)}) = 1
    /\ \A i \in 1 .. Len(splits) :
         /\ splits[i].right.kind = splits[i].node.kind
         /\ splits[i].left.kind = splits[i].node.kind
         /\ Heights(splits[i].right) = Heights(splits[i].node)
         /\ Heights(splits[i].left) = Heights(splits[i].node)

\* a leaf of a three-level tree, not the last one, was split
C9_Witness ==
    /\ Height(root) = 3
    /\ Len(splits) = 1
    /\ splits[1].node.kind = "Leaf"
    /\ MaxKey(splits[1].right) < MaxKey(root)

\* C10: every split is applied to a node of exactly BTREE_MAX_KEYS keys
\* (and BTREE_MAX_KEYS + 1 children if internal) and leaves it with
\* BTREE_MIN_KEYS keys, hands up one median and makes a right sibling of the
\* same variant with BTREE_MIN_KEYS keys; an internal node's sides get
\* BTREE_MIN_KEYS + 1 children each.
C10_SplitSizes ==
    \A i \in 1 .. Len(splits) :
        LET e == splits[i]
        IN  /\ Len(e.node.keys) = BTREE_MAX_KEYS
            /\ e.node.num_keys = BTREE_MAX_KEYS
            /\ Len(e.left.keys) = BTREE_MIN_KEYS
            /\ e.left.num_keys = BTREE_MIN_KEYS
            /\ Len(e.right.keys) = BTREE_MIN_KEYS
            /\ e.right.num_keys = BTREE_MIN_KEYS
            /\ e.right.kind = e.node.kind
            /\ e.median_key \in SeqToSet(e.node.keys)
            /\ e.node.kind = "Internal" =>
                  /\ Len(e.node.children) = BTREE_MAX_KEYS + 1
                  /\ Len(e.left.children) = BTREE_MIN_KEYS + 1
                  /\ Len(e.right.children) = BTREE_MIN_KEYS + 1

\* a leaf and then an internal node were split in one insert
C10_Witness ==
    /\ Len(splits) >= 2
    /\ splits[1].node.kind = "Leaf"
    /\ \E i \in 1 .. Len(splits) : splits[i].node.kind = "Internal"

\* C11: the height changes only in an insert whose recursive insert into the
\* root reports must_split; then it grows by exactly one and the new root is
\* an internal node with one key, the median of the old root, and two
\* children, the shrunk old root and the new sibling.  Every other insert and
\* every find leaves the height as it was; the height never decreases.
C11_HeightGrowsOnlyByRootSplit ==
    [][LET grows == op' = "insert" /\ insert_at_node(root, arg').must_split
           old   == insert_at_node(root, arg').node
       IN  /\ Height(root') >= Height(root)
           /\ ~grows => Height(root') = Height(root)
           /\ grows =>
                /\ Height(root') = Height(root) + 1
                /\ root'.kind = "Internal"
                /\ root'.num_keys = 1
                /\ root'.keys = <<old.keys[BTREE_MEDIAN_INDEX + 1]>>
                /\ Len(root'.children) = 2
                /\ root'.children[1].kind = old.kind
                /\ root'.children[1].keys = SubSeq(old.keys, 1, BTREE_MEDIAN_INDEX)
                /\ root'.children[2].kind = old.kind
                /\ root'.children[2].keys =
                       SubSeq(old.keys, BTREE_MEDIAN_INDEX + 2, Len(old.keys))]_vars

\* the first root split: a leaf root became an internal root over two leaves
C11_Witness ==
    /\ op = "insert"
    /\ Len(splits) = 1
    /\ Height(root) = 2
    /\ root.num_keys = 1 /\ Len(root.children) = 2

\* C12: a tree as new() returns it has an empty leaf as root, size() = 0 and
\* find(k) false for every key k.
C12_NewIsEmpty ==
    passed = {} =>
        /\ root.kind = "Leaf"
        /\ root.keys = <<>> /\ root.num_keys = 0
        /\ size(num_keys) = 0
        /\ \A k \in Keys : ~find(root, k)

\* a key is looked up in the tree new() returned
C12_Witness ==
    /\ passed = {}
    /\ op = "find" /\ ret = FALSE

\* C13: find and size are read-only: root and num_keys are the same before
\* and after the call; find visits the root and then one child of the node
\* visited before, at most one node per level, and answers from the last.
C13_FindAndSizeReadOnly ==
    [][(op' \in {"find", "size"}) =>
           /\ root' = root
           /\ num_keys' = num_keys
           /\ op' = "find" =>
                LET w == find_walk(root, arg')
                IN  /\ w[1] = root
                    /\ Len(w) <= Height(root)
                    /\ \A j \in 1 .. Len(w) - 1 :
                           w[j + 1] \in SeqToSet(w[j].children)
                    /\ ret' = (arg' \in SeqToSet(w[Len(w)].keys))]_vars

\* a stored key of a leaf is looked up in a tree of three levels
C13_Witness ==
    /\ op = "find" /\ ret = TRUE
    /\ Height(root) = 3
    /\ Len(find_walk(root, arg)) = 3

\* C14: size() is the number of key slots of all nodes together; every
\* stored key has one slot in one node, and every slot holds an inserted key.
C14_SizeIsSlotCount ==
    LET all == InOrder(root)
    IN  /\ KeySlots(root) = size(num_keys)
        /\ Len(all) = KeySlots(root)
        /\ Cardinality(SeqToSet(all)) = Len(all)
        /\ SeqToSet(all) = passed

\* size is asked of a three-level tree with keys promoted twice
C14_Witness ==
    /\ op = "size"
    /\ Height(root) = 3
    /\ ret = KeySlots(root)
    /\ ret > Cardinality({n \in Nodes(root) : n.kind = "Leaf"}) * BTREE_MIN_KEYS

\* C15: in one insert the splits go bottom-up along the insertion path: the
\* first split is of the leaf that took the key, each next split is of the
\* parent that just absorbed the split before, so one node per level at most;
\* subtrees off the insertion path are not modified; the root is split only
\* if the root itself reached BTREE_MAX_KEYS in this call.
C15_SplitsCascadeBottomUp ==
    [][op' = "insert" =>
         LET r == insert_at_node(root, arg')
             n == Len(splits')
         IN  /\ OffPath(root, arg') \subseteq Nodes(root')
             /\ \A i \in 1 .. n : Heights(splits'[i].node) = {i}
             /\ n > 0 => arg' \in SeqToSet(splits'[1].node.keys)
             /\ \A i \in 1 .. n - 1 :
                    LET parent == splits'[i + 1].node
                    IN  \E j \in 1 .. Len(parent.keys) :
                            /\ parent.keys[j] = splits'[i].median_key
                            /\ parent.children[j] = splits'[i].left
                            /\ parent.children[j + 1] = splits'[i].right
             /\ n <= Height(root)
             /\ (n = Height(root)) = (Height(root') > Height(root))
             /\ Height(root') > Height(root) =>
                    /\ splits'[n].node = r.node
                    /\ r.node.num_keys = BTREE_MAX_KEYS
                    /\ Len(r.node.keys) = BTREE_MAX_KEYS]_vars

\* a leaf split filled its parent below the root, the parent was split and
\* the root absorbed it without being split itself
C15_Witness ==
    /\ op = "insert"
    /\ Len(splits) = 2
    /\ Height(root) = 3
    /\ root.num_keys = 2
    /\ arg \in SeqToSet(splits[1].node.keys)

\* C16: a split loses, duplicates and reorders nothing: left keys, median,
\* right keys are the keys of the node split, left children then right
\* children are its children, and the median is the key at
\* BTREE_MEDIAN_INDEX.
C16_SplitPreservesContent ==
    \A i \in 1 .. Len(splits) :
        LET e == splits[i]
        IN  /\ e.left.keys \o <<e.median_key>> \o e.right.keys = e.node.keys
            /\ e.median_key = e.node.keys[BTREE_MEDIAN_INDEX + 1]
            /\ e.node.kind = "Internal" =>
                  e.left.children \o e.right.children = e.node.children

\* an internal node with children was split
C16_Witness ==
    \E i \in 1 .. Len(splits) :
        /\ splits[i].node.kind = "Internal"
        /\ Len(splits[i].right.children) > 0

\* C17: num_keys of every node is the length of its key sequence (and an
\* internal node has a child at every index up to num_keys), so the scans
\* stay inside keys and children; the tree's num_keys is a counter of its
\* own, the number of all keys.
C17_NumKeysIsLength ==
    /\ \A n \in Nodes(root) :
          /\ n.num_keys = Len(n.keys)
          /\ n.kind = "Internal" => n.num_keys + 1 <= Len(n.children)
    /\ num_keys = KeySlots(root)

\* the tree's count and the root's count differ
C17_Witness ==
    /\ root.kind = "Internal"
    /\ root.num_keys = Len(root.keys)
    /\ num_keys > root.num_keys
    /\ splits # <<>>

C19_MinOccupancy ==
    /\ \A n \in Nodes(root) \ {root} : Len(n.keys) >= BTREE_MIN_KEYS
    /\ root.kind = "Internal" =>
          Len(root.keys) >= 1 /\ Len(root.children) >= 2

\* right after a split of the root: the root has one key, its children
\* BTREE_MIN_KEYS each
C19_Witness ==
    /\ root.kind = "Internal"
    /\ Len(root.keys) = 1
    /\ \A i \in 1 .. Len(root.children) :
           Len(root.children[i].keys) = BTREE_MIN_KEYS

====
